---- MODULE Spec2Model ----
(***************************************************************************)
(* A model of matplotlib-backend-kitty (src/matplotlib-backend-kitty/      *)
(* __init__.py): the terminal geometry probe term_size_px, the graphics    *)
(* protocol encoder serialize_gr_command / write_chunked, and the display  *)
(* request FigureManagerICat.show that joins the two.                      *)
(*                                                                         *)
(* Text and bytes are sequences of character codes.  Each function is a    *)
(* small program counter machine; a call sets pc to the callee's first     *)
(* statement and the callee's return goes back to the caller named by      *)
(* `caller`.  An exception that nothing catches ends the run in pc =       *)
(* "raised" with its name in exc.  Lengths measured in inches are exact    *)
(* rationals <<numerator, denominator>>.                                   *)
(***************************************************************************)
EXTENDS Integers, Sequences, FiniteSets, TLC

\* ------------------------------------------------------------------ bounds
\* largest number of full 4096-byte windows an image is made of
MaxChunks == 2
\* images with the same length differ by their seed, 0..MaxSeed
MaxSeed == 1
\* the ioctl reports 0..MaxRows rows, 0..MaxWidthPx by 0..MaxHeightPx pixels
MaxRows == 4
MaxWidthPx == 1
MaxHeightPx == 4
\* a field of the terminal's reply is empty or one of 0, 12, .., 12 * MaxField
MaxField == 1
\* a figure is 1..MaxFig inches wide and high
MaxFig == 2
\* a serialized command has at most MaxPairs key=value pairs
MaxPairs == 3
\* the session has the figures 1..MaxFigures, and at most MaxQueue entries in
\* the queue of figures to show
MaxFigures == 2
MaxQueue == 3
\* the resize step alone: figures of 1..MaxFitFig inches on terminals of
\* 1..MaxFitPx pixels each way
MaxFitFig == 3
MaxFitPx == 5

\* ------------------------------------------------------- program constants
CHUNK == 4096
UNBOUND == -1
EOF == -1

APC_G == <<27, 95, 71>>
ST == <<27, 92>>
SEMI == <<59>>
QUERY_14T == <<27, 91, 49, 52, 116>>
RESPONSE_PREFIX == <<27, 91, 52, 59>>
KEY_a == <<97>>
KEY_f == <<102>>
KEY_m == <<109>>
VAL_T == <<84>>

NoException == "none"
\* line 209
KITTY_BACKEND == "module://matplotlib-backend-kitty"

\* ------------------------------------------------------------ small helpers
RECURSIVE Decimal(_)
\* str(n) for n >= 0
Decimal(n) == IF n < 10 THEN <<48 + n>> ELSE Decimal(n \div 10) \o <<48 + (n % 10)>>

RECURSIVE ParseInt(_)
\* int(s) for a non-empty string of ASCII digits
ParseInt(s) ==
    IF Len(s) = 0 THEN 0
    ELSE 10 * ParseInt(SubSeq(s, 1, Len(s) - 1)) + (s[Len(s)] - 48)

IsDigit(c) == c \in 48..57

\* the function f with domain 1..n as the sequence it is
AsSeq(f, n) == SubSeq(f, 1, n)

RECURSIVE Flatten(_)
Flatten(ss) == IF ss = <<>> THEN <<>> ELSE Head(ss) \o Flatten(Tail(ss))

RECURSIVE SeqsUpTo(_, _)
\* the sequences over S of length 0..n
SeqsUpTo(S, n) ==
    IF n = 0 THEN {<<>>}
    ELSE LET shorter == SeqsUpTo(S, n - 1)
         IN  shorter \cup {Append(s, x) : s \in shorter, x \in S}

\* a command value: an int (formatted in decimal) or a str
IntVal(n) == [int |-> TRUE, n |-> n, s |-> <<>>]
StrVal(s) == [int |-> FALSE, n |-> 0, s |-> s]
\* f'{v}'
Format(v) == IF v.int THEN Decimal(v.n) ELSE v.s

\* ------------------------------------------------------------------ base64
B64Char(i) ==
    IF i < 26 THEN 65 + i
    ELSE IF i < 52 THEN 97 + (i - 26)
    ELSE IF i < 62 THEN 48 + (i - 52)
    ELSE IF i = 62 THEN 43 ELSE 47

B64Index(c) ==
    IF c \in 65..90 THEN c - 65
    ELSE IF c \in 97..122 THEN c - 97 + 26
    ELSE IF c \in 48..57 THEN c - 48 + 52
    ELSE IF c = 43 THEN 62
    ELSE IF c = 47 THEN 63 ELSE 0

Pow64(k) == IF k = 0 THEN 1 ELSE IF k = 1 THEN 64 ELSE IF k = 2 THEN 4096 ELSE 262144
Pow256(k) == IF k = 0 THEN 1 ELSE IF k = 1 THEN 256 ELSE 65536

\* base64.standard_b64encode: 3 bytes make 4 characters, the last group is
\* padded with '='
standard_b64encode(bytes) ==
    LET n == Len(bytes)
        groups == (n + 2) \div 3
        Byte(j) == IF j <= n THEN bytes[j] ELSE 0
        \* the 24 bits of each group of three bytes, the last one zero-filled
        group == [g \in 0..(groups - 1) |->
                    Byte(3 * g + 1) * 65536 + Byte(3 * g + 2) * 256 + Byte(3 * g + 3)]
    IN  AsSeq([i \in 1..(4 * groups) |->
                  LET g == (i - 1) \div 4
                      k == (i - 1) % 4
                  IN  IF k > n - 3 * g THEN 61
                      ELSE B64Char((group[g] \div Pow64(3 - k)) % 64)],
              4 * groups)

\* base64.standard_b64decode, on a well-formed encoding
standard_b64decode(chars) ==
    LET L == Len(chars)
        pad == IF L = 0 THEN 0
               ELSE IF chars[L - 1] = 61 THEN 2
               ELSE IF chars[L] = 61 THEN 1 ELSE 0
        group == [g \in 0..((L \div 4) - 1) |->
                    B64Index(chars[4 * g + 1]) * 262144 + B64Index(chars[4 * g + 2]) * 4096
                    + B64Index(chars[4 * g + 3]) * 64 + B64Index(chars[4 * g + 4])]
    IN  AsSeq([j \in 1..(3 * (L \div 4) - pad) |->
                  (group[(j - 1) \div 3] \div Pow256(2 - ((j - 1) % 3))) % 256],
              3 * (L \div 4) - pad)

\* ------------------------------------------- binary64 floating point
\* Python floats are IEEE 754 binary64.  A non-zero double is sgn * man * 2^exp
\* with man a 53-bit natural number held as little-endian limbs of LimbBits
\* bits; results are rounded to nearest, ties to even.  Magnitudes stay far
\* from the overflow and subnormal ranges.
LimbBits == 15
LIMB == 32768
Precision == 53
QuotientLimbs == 4

RECURSIVE BTrim(_)
BTrim(a) ==
    IF a = <<>> THEN a
    ELSE IF a[Len(a)] = 0 THEN BTrim(SubSeq(a, 1, Len(a) - 1)) ELSE a
BHead(a) == IF a = <<>> THEN 0 ELSE Head(a)
BTail(a) == IF a = <<>> THEN a ELSE Tail(a)
RECURSIVE BAddC(_, _, _)
BAddC(a, b, c) ==
    IF a = <<>> /\ b = <<>>
    THEN IF c = 0 THEN <<>> ELSE <<c>>
    ELSE LET x == BHead(a) + BHead(b) + c
         IN  <<x % LIMB>> \o BAddC(BTail(a), BTail(b), x \div LIMB)
BAdd(a, b) == BAddC(a, b, 0)
RECURSIVE BSubB(_, _, _)
BSubB(a, b, c) ==
    IF a = <<>> THEN <<>>
    ELSE LET x == Head(a) - BHead(b) - c
         IN  <<x % LIMB>> \o BSubB(Tail(a), BTail(b), IF x < 0 THEN 1 ELSE 0)
\* a - b for a >= b
BSub(a, b) == BTrim(BSubB(a, b, 0))
RECURSIVE BCmpAt(_, _, _)
BCmpAt(a, b, i) ==
    IF i = 0 THEN 0
    ELSE IF a[i] > b[i] THEN 1
    ELSE IF a[i] < b[i] THEN -1
    ELSE BCmpAt(a, b, i - 1)
BCmp(a, b) ==
    IF Len(a) > Len(b) THEN 1
    ELSE IF Len(a) < Len(b) THEN -1
    ELSE BCmpAt(a, b, Len(a))
RECURSIVE BMulSmall(_, _, _)
\* a * k + c for k < LIMB
BMulSmall(a, k, c) ==
    IF a = <<>>
    THEN IF c = 0 THEN <<>> ELSE <<c>>
    ELSE LET x == Head(a) * k + c
         IN  <<x % LIMB>> \o BMulSmall(Tail(a), k, x \div LIMB)
RECURSIVE BMul(_, _)
BMul(a, b) ==
    IF a = <<>> \/ b = <<>> THEN <<>>
    ELSE BAdd(BMulSmall(a, Head(b), 0),
              LET rest == BMul(a, Tail(b))
              IN  IF rest = <<>> THEN rest ELSE <<0>> \o rest)
Zeros(n) == SubSeq([i \in 1..n |-> 0], 1, n)
BShl(a, bits) ==
    IF a = <<>> THEN a
    ELSE Zeros(bits \div LimbBits) \o BMulSmall(a, 2 ^ (bits % LimbBits), 0)
BShr(a, bits) ==
    LET drop == bits \div LimbBits
        k == 2 ^ (bits % LimbBits)
        n == Len(a) - drop
    IN  IF n <= 0 THEN <<>>
        ELSE BTrim(SubSeq([i \in 1..n |->
                        (a[drop + i] \div k)
                        + (IF i < n THEN (a[drop + i + 1] % k) * (LIMB \div k) ELSE 0)],
                     1, n))
BLowBits(a, bits) ==
    LET full == bits \div LimbBits
        k == 2 ^ (bits % LimbBits)
    IN  IF Len(a) <= full THEN a
        ELSE BTrim(SubSeq(a, 1, full) \o <<a[full + 1] % k>>)
RECURSIVE BitLenSmall(_)
BitLenSmall(x) == IF x = 0 THEN 0 ELSE 1 + BitLenSmall(x \div 2)
BBitLen(a) == IF a = <<>> THEN 0 ELSE LimbBits * (Len(a) - 1) + BitLenSmall(a[Len(a)])
BIsOdd(a) == a # <<>> /\ a[1] % 2 = 1
RECURSIVE BOfNat(_)
BOfNat(n) == IF n = 0 THEN <<>> ELSE <<n % LIMB>> \o BOfNat(n \div LIMB)

\* <<q, shift>>: p * 2^0 (plus a non-zero fraction when sticky) rounded to
\* Precision bits is q * 2^shift
RoundHalfEven(p, sticky) ==
    LET sh == BBitLen(p) - Precision
    IN  IF sh <= 0 THEN <<BShl(p, -sh), sh>>
        ELSE LET q0 == BShr(p, sh)
                 c == BCmp(BLowBits(p, sh), BShl(<<1>>, sh - 1))
                 up == c = 1 \/ (c = 0 /\ (sticky \/ BIsOdd(q0)))
                 q1 == IF up THEN BAdd(q0, <<1>>) ELSE q0
             IN  IF BBitLen(q1) > Precision THEN <<BShr(q1, 1), sh + 1>> ELSE <<q1, sh>>

FloatZero == [sgn |-> 0, man |-> <<>>, exp |-> 0]
\* float(n)
float_of_int(n) ==
    IF n = 0 THEN FloatZero
    ELSE LET r == RoundHalfEven(BOfNat(IF n < 0 THEN -n ELSE n), FALSE)
         IN  [sgn |-> IF n < 0 THEN -1 ELSE 1, man |-> r[1], exp |-> r[2]]
\* x * y
float_mul(x, y) ==
    IF x.sgn = 0 \/ y.sgn = 0 THEN FloatZero
    ELSE LET r == RoundHalfEven(BMul(x.man, y.man), FALSE)
         IN  [sgn |-> x.sgn * y.sgn, man |-> r[1], exp |-> x.exp + y.exp + r[2]]
Limb(a, i) == IF i <= Len(a) THEN a[i] ELSE 0
RECURSIVE FixDigit(_, _, _)
\* the largest q at or below the estimate with q * d <= r
FixDigit(r, d, q) ==
    IF BCmp(BTrim(BMulSmall(d, q, 0)), r) = 1 THEN FixDigit(r, d, q - 1) ELSE q
\* floor(r / d) for r < d * LIMB, d with a top limb of at least LIMB / 2
QuotDigit(r, d) ==
    LET n == Len(d)
        est == (Limb(r, n + 1) * LIMB + Limb(r, n)) \div d[n]
    IN  FixDigit(r, d, IF est > LIMB - 1 THEN LIMB - 1 ELSE est)
RECURSIVE LongDiv(_, _, _, _)
\* n more limbs of the quotient of r / d below q: <<quotient, inexact>>
LongDiv(r, d, n, q) ==
    IF n = 0 THEN <<BTrim(q), r # <<>>>>
    ELSE LET r0 == IF r = <<>> THEN r ELSE <<0>> \o r
             dig == QuotDigit(r0, d)
         IN  LongDiv(BSub(r0, BTrim(BMulSmall(d, dig, 0))), d, n - 1, <<dig>> \o q)
\* x / y for y # 0
float_truediv(x, y) ==
    IF x.sgn = 0 THEN FloatZero
    ELSE LET d == BShl(y.man, QuotientLimbs * LimbBits - Precision)
             r0 == BShl(x.man, QuotientLimbs * LimbBits - Precision)
             ge == BCmp(r0, d) >= 0
             qr == LongDiv(IF ge THEN BSub(r0, d) ELSE r0, d, QuotientLimbs,
                           <<IF ge THEN 1 ELSE 0>>)
             r == RoundHalfEven(qr[1], qr[2])
         IN  [sgn |-> x.sgn * y.sgn, man |-> r[1],
              exp |-> x.exp - y.exp - QuotientLimbs * LimbBits + r[2]]
RECURSIVE BToNat(_)
BToNat(a) == IF a = <<>> THEN 0 ELSE Head(a) + LIMB * BToNat(Tail(a))
\* int(x): truncation toward zero, for |x| < 2^31
int_of_float(x) ==
    x.sgn * BToNat(IF x.exp < 0 THEN BShr(x.man, -x.exp) ELSE BShl(x.man, x.exp))
\* -1, 0, 1 as x < y, x = y, x > y
FloatCmp(x, y) ==
    IF x.sgn # y.sgn THEN (IF x.sgn > y.sgn THEN 1 ELSE -1)
    ELSE IF x.sgn = 0 THEN 0
    ELSE x.sgn * (IF x.exp > y.exp THEN 1
                  ELSE IF x.exp < y.exp THEN -1
                  ELSE BCmp(x.man, y.man))
\* x > y
float_gt(x, y) == FloatCmp(x, y) = 1

\* ------------------------------------------------------------------- state
VARIABLES
    pc,            \* the statement the running call is at
    caller,        \* the outermost call: "show", "term_size_px", "write_chunked", "serialize_gr_command"
    exc,           \* the exception in flight or propagated, or NoException
    environ,       \* os.environ['MPLBACKEND_KITTY_SIZING'], or UNSET
    figSize,       \* figure.get_size_inches(): <<width, height>>, doubles
    renderedSize,  \* the size the figure had when savefig rendered it
    image,         \* the bytes handed to write_chunked as data
    height_rows, width_px, height_px,   \* locals of term_size_px
    termMode,      \* the input mode of the terminal behind stdin
    tattr,         \* the mode tcgetattr captured in the latest probe, "none" before
    stdin,         \* the characters the terminal has sent and nobody has read; a
                   \* last element EOF says the input ended there, and a read
                   \* of the empty sequence blocks
    buf,           \* local of term_size_px: the characters read so far
    ret,           \* the value term_size_px returned
    stdout,        \* everything written to sys.stdout, one element per write
    calls,         \* the arguments of every serialize_gr_command call of write_chunked
    opts,          \* the keyword arguments of write_chunked other than data
    cmd,           \* local of write_chunked: the dict cmd
    data,          \* local of write_chunked: the base64 text not yet sent
    serArgs,       \* the arguments of a direct serialize_gr_command call
    serOut,        \* what that call returned
    _to_show,      \* _BackendICatAgg._to_show: the queued figures
    _draw_called,  \* _BackendICatAgg._draw_called
    interactive,   \* matplotlib.is_interactive()
    backend,       \* matplotlib.get_backend()
    gcf,           \* the figures that have a manager in Gcf
    shown,         \* the figures the latest backend call displayed, in order
    flushed        \* the queue as the latest flush_figures call found it

probeVars == <<height_rows, width_px, height_px, termMode, tattr, stdin, buf, ret>>
chunkVars == <<image, calls, opts, cmd, data>>
figVars == <<environ, figSize, renderedSize>>
serVars == <<serArgs, serOut>>
backendVars == <<_to_show, _draw_called, interactive, backend, gcf, shown, flushed>>
vars == <<pc, caller, exc, figVars, probeVars, stdout, chunkVars, serVars, backendVars>>

Pending == [kind |-> "pending", h |-> 0, w |-> 0]
NoResult == [kind |-> "none", h |-> 0, w |-> 0]
Size(h, w) == [kind |-> "size", h |-> h, w |-> w]

NoPayload == [none |-> TRUE, bytes |-> <<>>]
Payload(b) == [none |-> FALSE, bytes |-> b]
Pair(k, v) == [k |-> k, v |-> v]

\* ---------------------------------------------------- serialize_gr_command
\* ','.join(f'{k}={v}' for k, v in cmd.items())
RECURSIVE JoinPairs(_)
JoinPairs(pairs) ==
    IF pairs = <<>> THEN <<>>
    ELSE LET p == Head(pairs)
             one == p.k \o <<61>> \o Format(p.v)
         IN  IF Len(pairs) = 1 THEN one ELSE one \o <<44>> \o JoinPairs(Tail(pairs))

\* `if payload:` is false for None and for b''
PayloadSectionAlways(payload) == SEMI \o payload.bytes
PayloadSection(payload) ==
    IF ~payload.none /\ payload.bytes # <<>> THEN SEMI \o payload.bytes ELSE <<>>

serialize_gr_command(pairs, payload) ==
    APC_G \o JoinPairs(pairs) \o PayloadSection(payload) \o ST

\* ------------------------------------------------------------ write_chunked
Min(a, b) == IF a < b THEN a ELSE b
\* data[:4096] and data[4096:]
ChunkOf(d) == SubSeq(d, 1, Min(CHUNK, Len(d)))
RestOfSkipping(d) == SubSeq(d, Min(CHUNK, Len(d)) + 2, Len(d))
RestOf(d) == SubSeq(d, Min(CHUNK, Len(d)) + 1, Len(d))
\* m = 1 if data else 0, data being the rest
MoreFlagOfChunk(chunk, rest) == IF chunk # <<>> THEN 1 ELSE 0
MoreFlag(chunk, rest) == IF rest # <<>> THEN 1 ELSE 0
\* cmd.clear()
CmdKept(c) == c
CmdCleared(c) == <<>>

\* line 93: data = standard_b64encode(cmd.pop('data'))
write_chunked_encode ==
    /\ pc = "wc_encode"
    /\ data' = standard_b64encode(image)
    /\ cmd' = opts
    /\ pc' = "wc_loop"
    /\ UNCHANGED <<caller, exc, figVars, probeVars, stdout, image, calls, opts, serVars>>
    /\ UNCHANGED backendVars

\* lines 94-99: one turn of the loop, or its end
write_chunked_loop ==
    /\ pc = "wc_loop"
    /\ IF data # <<>>
       THEN LET chunk == ChunkOf(data)
                rest == RestOf(data)
                pairs == <<Pair(KEY_m, IntVal(MoreFlag(chunk, rest)))>> \o cmd
            IN  \/ /\ stdout' = Append(stdout, serialize_gr_command(pairs, Payload(chunk)))
                   /\ calls' = Append(calls, [pairs |-> pairs, payload |-> chunk])
                   /\ cmd' = CmdCleared(cmd)
                   /\ data' = rest
                   /\ UNCHANGED <<pc, exc>>
                \/ \* sys.stdout.buffer.write or flush raises
                   /\ exc' = "OSError:write"
                   /\ pc' = "raised"
                   /\ cmd' = <<>>
                   /\ data' = <<>>
                   /\ UNCHANGED <<stdout, calls>>
       ELSE /\ pc' = "done"
            /\ cmd' = <<>>
            /\ UNCHANGED <<exc, stdout, calls, data>>
    /\ UNCHANGED <<caller, figVars, probeVars, image, opts, serVars>>
    /\ UNCHANGED backendVars

\* a direct call of serialize_gr_command(**cmd)
serialize_call ==
    /\ pc = "ser_call"
    /\ serOut' = serialize_gr_command(serArgs.pairs, serArgs.payload)
    /\ pc' = "done"
    /\ UNCHANGED <<caller, exc, figVars, probeVars, stdout, chunkVars, serArgs>>
    /\ UNCHANGED backendVars

\* ------------------------------------------------------------- term_size_px
TermModes == {"cooked", "raw"}

\* what the window-size ioctl can put in buf
IoctlRows == 0..MaxRows
IoctlWidths == 0..MaxWidthPx
IoctlHeights == 0..MaxHeightPx

\* what the terminal can send after the query: a well-formed reply with any
\* digits (or none) in its two fields, possibly with a keystroke before or
\* after it; a reply with one field missing; a keystroke alone; a lone
\* terminator; nothing
Fields == {<<>>} \cup {Decimal(12 * v) : v \in 0..MaxField}
Strays == {<<<<>>, <<>>>>, <<<<120>>, <<>>>>, <<<<>>, <<120>>>>}
Responses ==
    {x[1] \o RESPONSE_PREFIX \o f1 \o SEMI \o f2 \o <<116>> \o x[2] :
        x \in Strays, f1 \in Fields, f2 \in Fields}
    \cup {RESPONSE_PREFIX \o f1 \o <<116>> : f1 \in Fields}
    \cup {<<>>, <<120>>, <<116>>, <<EOF>>, <<120, EOF>>}

\* leaving the frame of term_size_px: its locals are gone (tattr is kept as
\* the record of what the probe had captured)
ProbeLocalsGone ==
    /\ height_rows' = UNBOUND
    /\ width_px' = 0
    /\ height_px' = 0
    /\ buf' = <<>>

ProbeReturn(r) ==
    /\ ret' = r
    /\ pc' = IF caller = "show" THEN "show_unpack" ELSE "done"
    /\ ProbeLocalsGone
    /\ UNCHANGED exc

ProbeRaise(e) ==
    /\ exc' = e
    /\ pc' = "raised"
    /\ ProbeLocalsGone
    /\ UNCHANGED ret

\* lines 34-40: the ioctl under suppress(OSError)
term_size_px_ioctl ==
    /\ pc = "tsp_ioctl"
    /\ \/ \* OSError, swallowed: height_rows is never bound
          /\ height_rows' = UNBOUND
          /\ width_px' = 0
          /\ height_px' = 0
       \/ \E r \in IoctlRows, w \in IoctlWidths, h \in IoctlHeights :
          /\ height_rows' = r
          /\ width_px' = w
          /\ height_px' = h
    /\ pc' = "tsp_adjust"
    /\ UNCHANGED <<caller, exc, figVars, termMode, tattr, stdin, buf, ret,
                   stdout, chunkVars, serVars>>
    /\ UNCHANGED backendVars

\* lines 43-45: row_height = height_px / height_rows;
\* height_px -= int(3 * row_height)
HeightKept(rows, h) == h
AdjustedHeight(rows, h) ==
    IF rows > 0 /\ h # 0
    THEN LET row_height == float_truediv(float_of_int(h), float_of_int(rows))
         IN  h - int_of_float(float_mul(float_of_int(3), row_height))
    ELSE h

\* lines 47
UsableCheck(w, h) == w # 0 /\ h # 0

\* lines 43-48
term_size_px_adjust ==
    /\ pc = "tsp_adjust"
    /\ IF height_rows = UNBOUND
       THEN \* the name height_rows is read before any assignment
            /\ ProbeRaise("UnboundLocalError")
            /\ UNCHANGED <<termMode, tattr, stdin>>
       ELSE LET h == AdjustedHeight(height_rows, height_px)
            IN  IF UsableCheck(width_px, h)
                THEN /\ ProbeReturn(Size(h, width_px))
                     /\ UNCHANGED <<termMode, tattr, stdin>>
                ELSE \* on to the fallback, which reads none of the three
                     \* ioctl locals again
                     /\ pc' = "tsp_getattr"
                     /\ ProbeLocalsGone
                     /\ UNCHANGED <<exc, termMode, tattr, stdin, ret>>
    /\ UNCHANGED <<caller, figVars, stdout, chunkVars, serVars>>
    /\ UNCHANGED backendVars

\* lines 51-53: buf = '', tattr = termios.tcgetattr(stdin)
term_size_px_getattr ==
    /\ pc = "tsp_getattr"
    /\ \/ /\ tattr' = termMode
          /\ pc' = "tsp_setcbreak"
          /\ buf' = <<>>
          /\ UNCHANGED <<exc, height_rows, width_px, height_px, ret>>
       \/ \* stdin is no terminal: nothing was captured or changed
          /\ ProbeRaise("termios.error:tcgetattr")
          /\ UNCHANGED tattr
    /\ UNCHANGED <<caller, figVars, termMode, stdin, stdout, chunkVars, serVars>>
    /\ UNCHANGED backendVars

\* line 56: tty.setcbreak(stdin, termios.TCSANOW), inside try
term_size_px_setcbreak ==
    /\ pc = "tsp_setcbreak"
    /\ \/ /\ termMode' = "cbreak"
          /\ pc' = "tsp_query"
          /\ UNCHANGED exc
       \/ \* it raises, before or after the mode was changed
          /\ termMode' \in {termMode, "cbreak"}
          /\ exc' = "termios.error:setcbreak"
          /\ pc' = "tsp_finally"
    /\ UNCHANGED <<caller, figVars, height_rows, width_px, height_px, tattr, stdin,
                   buf, ret, stdout, chunkVars, serVars>>
    /\ UNCHANGED backendVars

\* lines 57-58: the query is written and flushed; the terminal answers
term_size_px_query ==
    /\ pc = "tsp_query"
    /\ \/ /\ stdout' = Append(stdout, QUERY_14T)
          /\ stdin' \in Responses
          /\ pc' = "tsp_read"
          /\ UNCHANGED exc
       \/ /\ exc' = "OSError:write"
          /\ pc' = "tsp_finally"
          /\ UNCHANGED <<stdout, stdin>>
    /\ UNCHANGED <<caller, figVars, height_rows, width_px, height_px, termMode, tattr,
                   buf, ret, chunkVars, serVars>>
    /\ UNCHANGED backendVars

\* lines 60-63: one turn of the read loop
term_size_px_read ==
    /\ pc = "tsp_read"
    /\ \/ /\ stdin # <<>>
          /\ Head(stdin) # EOF
          /\ buf' = Append(buf, Head(stdin))
          /\ stdin' = Tail(stdin)
          /\ pc' = IF Head(stdin) = 116 THEN "tsp_finally" ELSE "tsp_read"
          /\ UNCHANGED exc
       \/ \* end of input: read(1) returns ''
          /\ stdin # <<>>
          /\ Head(stdin) = EOF
          /\ IF buf = <<>>
             THEN /\ exc' = "IndexError"
                  /\ pc' = "tsp_finally"
             ELSE UNCHANGED <<exc, pc>>
          /\ UNCHANGED <<buf, stdin>>
       \/ \* the read is interrupted
          /\ exc' = "KeyboardInterrupt"
          /\ pc' = "tsp_finally"
          /\ UNCHANGED <<buf, stdin>>
    /\ UNCHANGED <<caller, figVars, height_rows, width_px, height_px, termMode, tattr,
                   ret, stdout, chunkVars, serVars>>
    /\ UNCHANGED backendVars

\* lines 65-66: finally: termios.tcsetattr(stdin, termios.TCSANOW, tattr)
RestoredOnSuccessOnly(pending, saved, current) ==
    IF pending = NoException THEN saved ELSE current
RestoredMode(pending, saved, current) == saved

term_size_px_finally ==
    /\ pc = "tsp_finally"
    /\ \/ /\ termMode' = RestoredMode(exc, tattr, termMode)
          /\ IF exc = NoException
             THEN /\ pc' = "tsp_parse"
                  /\ UNCHANGED <<exc, height_rows, width_px, height_px, buf, ret>>
             ELSE ProbeRaise(exc)
       \/ \* tcsetattr itself raises: the mode stays as it is
          /\ ProbeRaise("termios.error:tcsetattr")
          /\ UNCHANGED termMode
    /\ UNCHANGED <<caller, figVars, tattr, stdin, stdout, chunkVars, serVars>>
    /\ UNCHANGED backendVars

\* line 71: re.match(r'^\x1b\[4;(\d*);(\d*)t', buf)
NoMatch == [matched |-> FALSE, g0 |-> <<>>, g1 |-> <<>>]
Match(s) ==
    LET n == Len(s)
        \* the end of the longest run of digits starting at i
        RunEnd(i) == CHOOSE j \in (i - 1)..n :
                        /\ \A k \in i..j : IsDigit(s[k])
                        /\ (j = n \/ ~IsDigit(s[j + 1]))
    IN  IF n < 4 \/ SubSeq(s, 1, 4) # RESPONSE_PREFIX THEN NoMatch
        ELSE LET e0 == RunEnd(5)
             IN  IF e0 + 1 > n \/ s[e0 + 1] # 59 THEN NoMatch
                 ELSE LET e1 == RunEnd(e0 + 2)
                      IN  IF e1 + 1 > n \/ s[e1 + 1] # 116 THEN NoMatch
                          ELSE [matched |-> TRUE,
                                g0 |-> SubSeq(s, 5, e0),
                                g1 |-> SubSeq(s, e0 + 2, e1)]

\* lines 70-76
term_size_px_parse ==
    /\ pc = "tsp_parse"
    /\ LET m == Match(buf)
       IN  IF ~m.matched
           THEN \* matches is None: AttributeError, caught
                ProbeReturn(NoResult)
           ELSE IF m.g0 = <<>> \/ m.g1 = <<>>
                THEN \* int('')
                     ProbeRaise("ValueError")
                ELSE ProbeReturn(Size(ParseInt(m.g0), ParseInt(m.g1)))
    /\ UNCHANGED <<caller, figVars, termMode, tattr, stdin, stdout, chunkVars,
                   serVars>>
    /\ UNCHANGED backendVars

\* ------------------------------------------------- FigureManagerICat.show
UNSET == "<unset>"
EnvValues == {UNSET, "automatic", "preserve_aspect_ratio", "none", "fit", ""}

\* line 115: os.environ.get('MPLBACKEND_KITTY_SIZING', 'preserve_aspect_ratio')
sizing_strategy == IF environ = UNSET THEN "preserve_aspect_ratio" ELSE environ

\* line 116
SizingAppliesUnlessNone(s) == s # "none"
SizingApplies(s) == s \in {"automatic", "preserve_aspect_ratio"}

\* figure.dpi
Dpis == {50, 100}

FigSizes == {<<float_of_int(w), float_of_int(h)>> : w \in 1..MaxFig, h \in 1..MaxFig}

\* lines 120-135: the size handed to set_size_inches, computed in binary64
\* with the source's expressions in the source's order
NewSizeFitWidthOnly(strategy, size, dpi, term_h, term_w) ==
    LET ipd == float_truediv(float_of_int(1), float_of_int(dpi))
        term_width_inch == float_mul(float_of_int(term_w), ipd)
        term_height_inch == float_mul(float_of_int(term_h), ipd)
    IN  IF strategy = "automatic"
        THEN <<term_width_inch, term_height_inch>>
        ELSE <<term_width_inch,
               float_truediv(float_mul(term_width_inch, size[2]), size[1])>>
NewSize(strategy, size, dpi, term_h, term_w) ==
    LET ipd == float_truediv(float_of_int(1), float_of_int(dpi))
        term_width_inch == float_mul(float_of_int(term_w), ipd)
        term_height_inch == float_mul(float_of_int(term_h), ipd)
    IN  IF strategy = "automatic"
        THEN <<term_width_inch, term_height_inch>>
        ELSE LET fig_w == size[1]
                 fig_h == size[2]
                 new_w == term_width_inch
                 new_h == float_truediv(float_mul(new_w, fig_h), fig_w)
             IN  IF float_gt(new_h, term_height_inch)
                 THEN <<float_truediv(float_mul(term_height_inch, fig_w), fig_h),
                        term_height_inch>>
                 ELSE <<new_w, new_h>>

\* the renderings savefig can hand over: one that fits a single window and
\* one that needs a second
Img(n, seed) == AsSeq([i \in 1..n |-> (seed + 37 * i) % 256], n)
FullWindow == 3 * (CHUNK \div 4)
ImageLens == {k * FullWindow + d : k \in 0..MaxChunks, d \in {-1, 0, 1, 2}} \cap Nat
Images == {Img(n, s) : n \in ImageLens, s \in 0..MaxSeed}
Renderings == {Img(1, 0), Img(FullWindow + 1, 0)}

\* lines 115-116
show_start ==
    /\ pc = "show_start"
    /\ pc' = IF SizingApplies(sizing_strategy) THEN "tsp_ioctl" ELSE "show_savefig"
    /\ UNCHANGED <<caller, exc, figVars, probeVars, stdout, chunkVars, serVars>>
    /\ UNCHANGED backendVars

\* lines 119-135: term_size_px() has returned
show_unpack ==
    /\ pc = "show_unpack"
    /\ IF ret.kind = "none"
       THEN \* cannot unpack non-iterable NoneType object
            /\ exc' = "TypeError"
            /\ pc' = "raised"
            /\ UNCHANGED figSize
       ELSE \E dpi \in Dpis :
            /\ figSize' = NewSize(sizing_strategy, figSize, dpi, ret.h, ret.w)
            /\ pc' = "show_savefig"
            /\ UNCHANGED exc
    /\ ret' = Pending
    /\ UNCHANGED <<caller, environ, renderedSize, height_rows, width_px, height_px, termMode,
                   tattr, stdin, buf, stdout, chunkVars, serVars>>
    /\ UNCHANGED backendVars

\* lines 137-139: savefig into the buffer, write_chunked(a='T', f=100, data=...)
show_savefig ==
    /\ pc = "show_savefig"
    /\ image' \in Renderings
    /\ renderedSize' = figSize
    /\ opts' = <<Pair(KEY_a, StrVal(VAL_T)), Pair(KEY_f, IntVal(100))>>
    /\ pc' = "wc_encode"
    /\ UNCHANGED <<caller, exc, environ, figSize, probeVars, stdout, calls, cmd, data,
                   serVars>>
    /\ UNCHANGED backendVars

\* ------------------------------------------------------- specifications
NoSize == <<FloatZero, FloatZero>>

ProbeIdle ==
    /\ height_rows = UNBOUND
    /\ width_px = 0
    /\ height_px = 0
    /\ tattr = "none"
    /\ stdin = <<>>
    /\ buf = <<>>
    /\ ret = Pending

ChunkIdle ==
    /\ image = <<>>
    /\ calls = <<>>
    /\ opts = <<>>
    /\ cmd = <<>>
    /\ data = <<>>

SerIdle ==
    /\ serArgs = [pairs |-> <<>>, payload |-> NoPayload]
    /\ serOut = <<>>

BackendIdle ==
    /\ _to_show = <<>>
    /\ _draw_called = FALSE
    /\ interactive = FALSE
    /\ backend = KITTY_BACKEND
    /\ gcf = {}
    /\ shown = <<>>
    /\ flushed = <<>>

\* a display request: show() on a figure of some size, under some setting of
\* the environment variable, on a terminal in some input mode
Init ==
    /\ pc = "show_start"
    /\ caller = "show"
    /\ exc = NoException
    /\ environ \in EnvValues
    /\ figSize \in FigSizes
    /\ renderedSize = NoSize
    /\ termMode \in TermModes
    /\ ProbeIdle
    /\ stdout = <<>>
    /\ ChunkIdle
    /\ SerIdle
    /\ BackendIdle

Next ==
    \/ show_start
    \/ term_size_px_ioctl
    \/ term_size_px_adjust
    \/ term_size_px_getattr
    \/ term_size_px_setcbreak
    \/ term_size_px_query
    \/ term_size_px_read
    \/ term_size_px_finally
    \/ term_size_px_parse
    \/ show_unpack
    \/ show_savefig
    \/ write_chunked_encode
    \/ write_chunked_loop

Spec == Init /\ [][Next]_vars

\* the resize step of show() on its own: term_size_px() has just returned
InitFit ==
    /\ pc = "show_unpack"
    /\ caller = "show"
    /\ exc = NoException
    /\ environ \in {"preserve_aspect_ratio", "automatic"}
    /\ figSize \in {<<float_of_int(w), float_of_int(h)>> : w \in 1..MaxFitFig, h \in 1..MaxFitFig}
    /\ renderedSize = NoSize
    /\ termMode \in TermModes
    /\ height_rows = UNBOUND
    /\ width_px = 0
    /\ height_px = 0
    /\ tattr = "none"
    /\ stdin = <<>>
    /\ buf = <<>>
    /\ ret \in {Size(h, w) : h \in 1..MaxFitPx, w \in 1..MaxFitPx} \cup {NoResult}
    /\ stdout = <<>>
    /\ ChunkIdle
    /\ SerIdle
    /\ BackendIdle

NextFit == show_unpack

SpecFit == InitFit /\ [][NextFit]_vars

\* term_size_px() called on its own
InitProbe ==
    /\ pc = "tsp_ioctl"
    /\ caller = "term_size_px"
    /\ exc = NoException
    /\ environ = UNSET
    /\ figSize = NoSize
    /\ renderedSize = NoSize
    /\ termMode \in TermModes
    /\ ProbeIdle
    /\ stdout = <<>>
    /\ ChunkIdle
    /\ SerIdle
    /\ BackendIdle

NextProbe ==
    \/ term_size_px_ioctl
    \/ term_size_px_adjust
    \/ term_size_px_getattr
    \/ term_size_px_setcbreak
    \/ term_size_px_query
    \/ term_size_px_read
    \/ term_size_px_finally
    \/ term_size_px_parse

SpecProbe == InitProbe /\ [][NextProbe]_vars

\* write_chunked(data=..., **opts) called on its own
OptionSets ==
    { <<>>,
      <<Pair(KEY_a, StrVal(VAL_T))>>,
      <<Pair(KEY_a, StrVal(VAL_T)), Pair(KEY_f, IntVal(100))>> }

InitChunk ==
    /\ pc = "wc_encode"
    /\ caller = "write_chunked"
    /\ exc = NoException
    /\ environ = UNSET
    /\ figSize = NoSize
    /\ renderedSize = NoSize
    /\ termMode = "cooked"
    /\ ProbeIdle
    /\ stdout = <<>>
    /\ image \in Images
    /\ opts \in OptionSets
    /\ calls = <<>>
    /\ cmd = <<>>
    /\ data = <<>>
    /\ SerIdle
    /\ BackendIdle

NextChunk ==
    \/ write_chunked_encode
    \/ write_chunked_loop

SpecChunk == InitChunk /\ [][NextChunk]_vars

\* serialize_gr_command(**cmd) called on its own: up to MaxPairs pairs with
\* distinct keys, and a payload that is absent, empty or not
PairChoices ==
    { Pair(KEY_a, StrVal(VAL_T)), Pair(KEY_f, IntVal(100)), Pair(KEY_f, IntVal(32)),
      Pair(KEY_m, IntVal(0)), Pair(KEY_m, IntVal(1)) }
Commands ==
    { c \in SeqsUpTo(PairChoices, MaxPairs) :
        \A i, j \in 1..Len(c) : i # j => c[i].k # c[j].k }
Payloads == { NoPayload, Payload(<<>>), Payload(<<81>>), Payload(<<81, 81, 61, 61>>) }

InitSer ==
    /\ pc = "ser_call"
    /\ caller = "serialize_gr_command"
    /\ exc = NoException
    /\ environ = UNSET
    /\ figSize = NoSize
    /\ renderedSize = NoSize
    /\ termMode = "cooked"
    /\ ProbeIdle
    /\ stdout = <<>>
    /\ ChunkIdle
    /\ serArgs \in [pairs : Commands, payload : Payloads]
    /\ serOut = <<>>
    /\ BackendIdle

NextSer == serialize_call

SpecSer == InitSer /\ [][NextSer]_vars

\* ------------------------------------------------------- _BackendICatAgg
Figs == 1..MaxFigures
Backends == {KITTY_BACKEND, "agg"}

\* list.remove(x) under `except ValueError: pass`: the first x goes, if any
ListRemove(s, x) ==
    IF \E i \in 1..Len(s) : s[i] = x
    THEN LET i == CHOOSE k \in 1..Len(s) : s[k] = x /\ \A j \in 1..(k - 1) : s[j] # x
         IN  SubSeq(s, 1, i - 1) \o SubSeq(s, i + 1, Len(s))
    ELSE s

\* lines 181-182 and 193-201: what the two `if is_interactive()` blocks of a
\* call that completes leave in the queue
QueuedAlways(q, figure, inter) == Append(ListRemove(Append(q, figure), figure), figure)
QueueAfterCreate(q, figure, inter) ==
    IF inter THEN Append(ListRemove(Append(q, figure), figure), figure) ELSE q

\* the figures of Gcf.get_all_fig_managers(), by number
Managed(g) == SelectSeq([i \in 1..MaxFigures |-> i], LAMBDA f : f \in g)

\* a loop of show() calls over a list runs to the end, or stops at the first
\* call that raises
ShowRuns(list) ==
    {[shown |-> SubSeq(list, 1, k), raised |-> k < Len(list)] : k \in 0..Len(list)}

\* lines 215-219: the queued figures that still have a manager
ShowListUnfiltered(q, active) == q
ShowListFirstOnly(q, active) ==
    LET s == SelectSeq(q, LAMBDA fig : fig \in active)
    IN  IF s = <<>> THEN s ELSE <<Head(s)>>
ShowList(q, active) == SelectSeq(q, LAMBDA fig : fig \in active)

\* line 223, in the finally block
FlushedQueueOnSuccess(q, raised) == IF raised THEN q ELSE <<>>
FlushedQueue(q, raised) == <<>>

restOfProgram == <<pc, figVars, probeVars, stdout, chunkVars, serVars>>

\* lines 177-204, and pyplot registering the returned manager with Gcf
new_figure_manager_given_figure ==
    /\ pc = "backend"
    /\ Len(_to_show) < MaxQueue
    /\ \E figure \in Figs :
          \/ \* line 183: draw_idle() renders the figure, and that raises
             /\ interactive
             /\ _to_show' = Append(_to_show, figure)
             /\ exc' = "Exception:draw_idle"
             /\ UNCHANGED <<_draw_called, gcf>>
          \/ /\ _to_show' = QueueAfterCreate(_to_show, figure, interactive)
             /\ _draw_called' = IF interactive THEN TRUE ELSE _draw_called
             /\ gcf' = gcf \cup {figure}
             /\ exc' = NoException
    /\ caller' = "new_figure_manager_given_figure"
    /\ shown' = <<>>
    /\ flushed' = <<>>
    /\ UNCHANGED <<restOfProgram, interactive, backend>>

\* lines 173-174: _Backend.show() shows every manager of Gcf (an exception of
\* manager.show() propagates), then Gcf.destroy_all()
ShowAll ==
    \E run \in ShowRuns(Managed(gcf)) :
        /\ shown' = run.shown
        /\ exc' = IF run.raised THEN "Exception:manager.show" ELSE NoException
        /\ gcf' = IF run.raised THEN gcf ELSE {}

\* lines 172-174
BackendICatAgg_show ==
    /\ pc = "backend"
    /\ ShowAll
    /\ caller' = "_BackendICatAgg.show"
    /\ flushed' = <<>>
    /\ UNCHANGED <<restOfProgram, _to_show, _draw_called, interactive, backend>>

\* lines 166-169
draw_if_interactive ==
    /\ pc = "backend"
    /\ IF ~interactive
       THEN /\ exc' = NoException
            /\ shown' = <<>>
            /\ UNCHANGED gcf
       ELSE IF gcf = {}
       THEN \* Gcf.get_active() is None: None has no attribute canvas
            /\ exc' = "AttributeError"
            /\ shown' = <<>>
            /\ UNCHANGED gcf
       ELSE \/ \* the active figure has no axes yet
               /\ exc' = NoException
               /\ shown' = <<>>
               /\ UNCHANGED gcf
            \/ ShowAll
    /\ caller' = "draw_if_interactive"
    /\ flushed' = <<>>
    /\ UNCHANGED <<restOfProgram, _to_show, _draw_called, interactive, backend>>

\* lines 206-224
flush_figures ==
    /\ pc = "backend"
    /\ IF backend # KITTY_BACKEND \/ ~_draw_called
       THEN /\ shown' = <<>>
            /\ flushed' = <<>>
            /\ exc' = NoException
            /\ UNCHANGED <<_to_show, _draw_called>>
       ELSE \E run \in ShowRuns(ShowList(_to_show, gcf)) :
            /\ shown' = run.shown
            /\ flushed' = _to_show
            /\ exc' = IF run.raised THEN "Exception:fig.show" ELSE NoException
            /\ _to_show' = FlushedQueue(_to_show, run.raised)
            /\ _draw_called' = FALSE
    /\ caller' = "flush_figures"
    /\ UNCHANGED <<restOfProgram, interactive, backend, gcf>>

\* the session around the backend: plt.ion() / plt.ioff()
matplotlib_interactive ==
    /\ pc = "backend"
    /\ interactive' = ~interactive
    /\ UNCHANGED <<restOfProgram, caller, exc, _to_show, _draw_called, backend, gcf,
                   shown, flushed>>

\* matplotlib.use(...)
matplotlib_use ==
    /\ pc = "backend"
    /\ backend' \in Backends \ {backend}
    /\ UNCHANGED <<restOfProgram, caller, exc, _to_show, _draw_called, interactive, gcf,
                   shown, flushed>>

\* plt.close(figure): the figure's manager leaves Gcf
Gcf_destroy ==
    /\ pc = "backend"
    /\ \E figure \in gcf : gcf' = gcf \ {figure}
    /\ UNCHANGED <<restOfProgram, caller, exc, _to_show, _draw_called, interactive,
                   backend, shown, flushed>>

\* an interactive session with the backend loaded: lines 30-31 may have turned
\* interactive mode on at import
InitBackend ==
    /\ pc = "backend"
    /\ caller = "session"
    /\ exc = NoException
    /\ environ = UNSET
    /\ figSize = NoSize
    /\ renderedSize = NoSize
    /\ termMode = "cooked"
    /\ ProbeIdle
    /\ stdout = <<>>
    /\ ChunkIdle
    /\ SerIdle
    /\ _to_show = <<>>
    /\ _draw_called = FALSE
    /\ interactive \in BOOLEAN
    /\ backend = KITTY_BACKEND
    /\ gcf = {}
    /\ shown = <<>>
    /\ flushed = <<>>

NextBackend ==
    \/ new_figure_manager_given_figure
    \/ BackendICatAgg_show
    \/ draw_if_interactive
    \/ flush_figures
    \/ matplotlib_interactive
    \/ matplotlib_use
    \/ Gcf_destroy

SpecBackend == InitBackend /\ [][NextBackend]_vars

\* ------------------------------------------------------------ properties
CeilDiv(a, b) == (a + b - 1) \div b

\* the more flag a frame carries: the value of its m key
FrameM(f) ==
    LET i == CHOOSE i \in 1..Len(f.pairs) : f.pairs[i].k = KEY_m
    IN  f.pairs[i].v.n

PayloadsOf(cs) == AsSeq([i \in 1..Len(cs) |-> cs[i].payload], Len(cs))

Transmitting == caller \in {"write_chunked", "show"}

\* C1: write_chunked emits exactly ceil(L/4096) frames for a base64 text of
\* length L; every frame but the last carries m=1 and the last carries m=0:
\* no frame follows an m=0 frame and no m=0 frame comes before the last.
C1_ChunkCountAndMoreFlags ==
    Transmitting =>
        /\ \A i \in 1..Len(calls) :
              /\ \E k \in 1..Len(calls[i].pairs) : calls[i].pairs[k].k = KEY_m
              /\ FrameM(calls[i]) \in {0, 1}
              /\ FrameM(calls[i]) = 0 => (i = Len(calls) /\ data = <<>>)
        /\ pc = "done" =>
              /\ Len(calls) = CeilDiv(Len(standard_b64encode(image)), CHUNK)
              /\ Len(stdout) >= Len(calls)
              /\ calls # <<>> => FrameM(calls[Len(calls)]) = 0

\* an image of three windows has been sent
C1_Witness ==
    /\ caller = "write_chunked"
    /\ pc = "done"
    /\ Len(calls) = 3
    /\ FrameM(calls[1]) = 1 /\ FrameM(calls[2]) = 1 /\ FrameM(calls[3]) = 0

\* C2: the payloads of the emitted frames, in emission order, are consecutive
\* windows of at most 4096 characters of the base64 encoding of the input,
\* nothing dropped or duplicated: with what is still to send they make up the
\* encoding, and once all are sent, decoding them gives back the image bytes.
C2_RoundTrip ==
    (Transmitting /\ pc \in {"wc_loop", "done"}) =>
        LET sent == Flatten(PayloadsOf(calls))
        IN  /\ sent \o data = standard_b64encode(image)
            /\ \A i \in 1..Len(calls) :
                  /\ Len(calls[i].payload) \in 1..CHUNK
                  /\ i < Len(calls) => Len(calls[i].payload) = CHUNK
            /\ pc = "done" =>
                  /\ data = <<>>
                  /\ standard_b64decode(sent) = image

\* an image has been sent whose last window is a partial one
C2_Witness ==
    /\ caller = "write_chunked"
    /\ pc = "done"
    /\ image # <<>>
    /\ Len(calls) >= 2
    /\ Len(calls[Len(calls)].payload) < CHUNK

\* the frame's command has every pair of the caller's options
CarriesOptions(f) ==
    \A j \in 1..Len(opts) : \E k \in 1..Len(f.pairs) : f.pairs[k] = opts[j]

\* C3 as stated: every frame of a transmitted image, the second and later
\* ones included, carries the caller-supplied option keys.
C3_EveryFrameCarriesOptions ==
    Transmitting => \A i \in 1..Len(calls) : CarriesOptions(calls[i])

\* C3 amended: the first frame carries the more flag followed by the
\* caller-supplied options; every later frame carries the more flag alone
\* (the options are cleared once the first frame is written); each frame is
\* written as the serialization of exactly those pairs and its window.
C3_OptionsOnFirstFrameOnly ==
    Transmitting =>
        \A i \in 1..Len(calls) :
            LET f == calls[i]
            IN  /\ f.pairs[1].k = KEY_m
                /\ Tail(f.pairs) = (IF i = 1 THEN opts ELSE <<>>)
                /\ \E n \in 1..Len(stdout) :
                      stdout[n] = serialize_gr_command(f.pairs, Payload(f.payload))

\* a second frame has been written for a call that had options
C3_Witness ==
    /\ caller = "write_chunked"
    /\ Len(opts) = 2
    /\ Len(calls) >= 2
    /\ CarriesOptions(calls[1])
    /\ ~CarriesOptions(calls[2])

\* the statements of the fallback between the change of the input mode and
\* its restoration
InsideTry == pc \in {"tsp_setcbreak", "tsp_query", "tsp_read", "tsp_finally"}

\* C4: restoration of the terminal mode is unconditional: once the fallback
\* has captured the input mode, every way out of its try block (to the parse,
\* to a return with or without a result, or with an exception raised by the
\* switch to cbreak mode, the write of the query, the read or the parse)
\* leaves the terminal in the captured mode.  Only a failure of the restoring
\* call itself is left out.
C4_ModeRestoredOnEveryExit ==
    (tattr # "none" /\ ~InsideTry /\ exc # "termios.error:tcsetattr") => termMode = tattr

\* the read raised after the terminal in raw mode had been put into cbreak
\* mode, and the probe has been left with raw mode back in place
C4_Witness ==
    /\ pc = "raised"
    /\ exc \in {"IndexError", "KeyboardInterrupt"}
    /\ tattr = "raw"
    /\ termMode = "raw"
    /\ Len(stdout) = 1 /\ stdout[1] = QUERY_14T

\* C5 as stated: when the probe returns no result to show(), show() raises
\* nothing, leaves the figure's size alone and goes on to render and transmit.
C5_ProbeFailureSkipsResize ==
    [][(pc = "show_unpack" /\ ret = NoResult) =>
          (exc' = NoException /\ figSize' = figSize /\ pc' = "show_savefig")]_vars

\* C6 as stated: when the ioctl raised (height_rows was never bound), the
\* probe raises nothing and goes on to the fallback.
C6_IoctlErrorFallsBack ==
    [][(pc = "tsp_adjust" /\ height_rows = UNBOUND) =>
          (exc' = NoException /\ pc' = "tsp_getattr")]_vars

\* C7 as stated: a result of term_size_px has a positive height and a
\* positive width.
C7_ResultIsPositive ==
    ret.kind = "size" => (ret.h > 0 /\ ret.w > 0)

\* ESC [ 4 ; <height> ; <width> t with at least one digit in each field
WellFormedReply(s) ==
    /\ Len(s) >= 8
    /\ SubSeq(s, 1, 4) = RESPONSE_PREFIX
    /\ s[Len(s)] = 116
    /\ \E i \in 6..(Len(s) - 2) :
          /\ s[i] = 59
          /\ \A k \in (5..(Len(s) - 1)) \ {i} : IsDigit(s[k])

\* C8 as stated: a reply that is not ESC [ 4 ; <height> ; <width> t with an
\* integer in both fields makes the probe return no result and raise nothing.
C8_MalformedReplyGivesNoResult ==
    [][(pc = "tsp_parse" /\ ~WellFormedReply(buf)) =>
          (ret' = NoResult /\ exc' = NoException /\ pc' # "raised")]_vars

Count(s, c) == Cardinality({i \in 1..Len(s) : s[i] = c})

\* key=value of each pair, the pairs separated by commas
PairsText(pairs) ==
    Flatten(AsSeq([i \in 1..(2 * Len(pairs) - 1) |->
                      IF i % 2 = 1
                      THEN pairs[(i + 1) \div 2].k \o <<61>> \o Format(pairs[(i + 1) \div 2].v)
                      ELSE <<44>>],
                  IF pairs = <<>> THEN 0 ELSE 2 * Len(pairs) - 1))

\* C9: a command serialized without a payload (absent or empty) is exactly
\* ESC _ G, the key=value pairs joined by commas without spaces, ESC \, with
\* no ';' in it; with a payload it is ESC _ G, the pairs, one ';', the
\* payload, ESC \.
C9_SerializedFrame ==
    (caller = "serialize_gr_command" /\ pc = "done") =>
        LET p == serArgs.payload
            some == ~p.none /\ p.bytes # <<>>
            n == Len(serOut)
            text == PairsText(serArgs.pairs)
        IN  /\ SubSeq(serOut, 1, 3) = APC_G
            /\ SubSeq(serOut, n - 1, n) = ST
            /\ SubSeq(serOut, 4, 3 + Len(text)) = text
            /\ Count(serOut, 32) = 0
            /\ Count(serOut, 59) = (IF some THEN 1 ELSE 0)
            /\ Count(serOut, 44) = (IF serArgs.pairs = <<>> THEN 0 ELSE Len(serArgs.pairs) - 1)
            /\ IF some
               THEN /\ n = 3 + Len(text) + 1 + Len(p.bytes) + 2
                    /\ serOut[4 + Len(text)] = 59
                    /\ SubSeq(serOut, 5 + Len(text), n - 2) = p.bytes
               ELSE n = 3 + Len(text) + 2

\* a command of two pairs was serialized with an empty (not absent) payload
C9_Witness ==
    /\ caller = "serialize_gr_command"
    /\ pc = "done"
    /\ ~serArgs.payload.none
    /\ serArgs.payload.bytes = <<>>
    /\ Len(serArgs.pairs) = 2
    /\ Count(serOut, 59) = 0

\* the environment variable holds neither of the two resizing strategies
NotResizing == environ \notin {UNSET, "automatic", "preserve_aspect_ratio"}

\* C10: with the strategy none or an unrecognized one, show() never enters
\* the geometry probe (no ioctl, no mode captured or changed, no query
\* written, stdin not read), never changes the figure's size, and ends only
\* by having rendered the figure at that size and transmitted the rendering
\* (or with the error of a failed write).
C10_NoneLeavesFigureAlone ==
    /\ [](NotResizing =>
            /\ pc \in {"show_start", "show_savefig", "wc_encode", "wc_loop", "done", "raised"}
            /\ tattr = "none"
            /\ ret = Pending
            /\ \A i \in 1..Len(stdout) : stdout[i] # QUERY_14T
            /\ pc = "raised" => exc = "OSError:write"
            /\ pc = "done" =>
                  /\ renderedSize = figSize
                  /\ image \in Renderings
                  /\ Flatten(PayloadsOf(calls)) = standard_b64encode(image)
                  /\ Len(stdout) = Len(calls))
    /\ [][NotResizing =>
            (figSize' = figSize /\ termMode' = termMode /\ stdin' = stdin)]_vars

\* show() has finished under an unrecognized strategy, two frames sent
C10_Witness ==
    /\ caller = "show"
    /\ environ = "fit"
    /\ pc = "done"
    /\ Len(calls) = 2
    /\ renderedSize = figSize

\* ------------------------------------------------------------ C11
\* exact arithmetic on the reals that doubles denote
ExactMul(x, y) == [sgn |-> x.sgn * y.sgn, man |-> BMul(x.man, y.man), exp |-> x.exp + y.exp]
ExactCmp(x, y) ==
    IF x.sgn # y.sgn THEN (IF x.sgn > y.sgn THEN 1 ELSE -1)
    ELSE IF x.sgn = 0 THEN 0
    ELSE LET e == IF x.exp < y.exp THEN x.exp ELSE y.exp
         IN  x.sgn * BCmp(BShl(x.man, x.exp - e), BShl(y.man, y.exp - e))
\* x + |x| * 2^-(Precision - 3): x moved up by eight units in its last place
Loosened(x) ==
    LET wide == BShl(x.man, Precision - 3)
    IN  [sgn |-> x.sgn,
         man |-> IF x.sgn < 0 THEN BSub(wide, x.man) ELSE BAdd(wide, x.man),
         exp |-> x.exp - (Precision - 3)]
AlmostLe(x, y) == ExactCmp(x, Loosened(y)) <= 0
AlmostEq(x, y) == AlmostLe(x, y) /\ AlmostLe(y, x)
\* lines 120-121: a pixel count in inches
TermInches(px, dpi) ==
    float_mul(float_of_int(px), float_truediv(float_of_int(1), float_of_int(dpi)))
\* the step of show() that sets a size under preserve_aspect_ratio
FitStep ==
    /\ pc = "show_unpack"
    /\ ret.kind = "size"
    /\ sizing_strategy = "preserve_aspect_ratio"

\* C11: under preserve_aspect_ratio, for every figure size (w,h) > 0 and every
\* box (W,H) the probe returned, the size (w',h') set on the figure satisfies
\* w'*h = w*h', w' <= W, h' <= H, and w' = W or h' = H, all exactly.
C11_AspectRatioFit ==
    [][FitStep =>
          \E dpi \in Dpis :
              LET W == TermInches(ret.w, dpi)
                  H == TermInches(ret.h, dpi)
              IN  /\ ExactCmp(ExactMul(figSize'[1], figSize[2]),
                              ExactMul(figSize[1], figSize'[2])) = 0
                  /\ ExactCmp(figSize'[1], W) <= 0
                  /\ ExactCmp(figSize'[2], H) <= 0
                  /\ (figSize'[1] = W \/ figSize'[2] = H)]_vars

\* C11 as the code has it: h' <= H and (w' = W or h' = H) hold exactly; the
\* ratio w'*h = w*h' and the bound w' <= W hold up to the rounding of the two
\* float operations that derive one side from the other (within 2^-50,
\* relatively).
C11_AspectRatioFitUpToRounding ==
    [][FitStep =>
          \E dpi \in Dpis :
              LET W == TermInches(ret.w, dpi)
                  H == TermInches(ret.h, dpi)
              IN  /\ AlmostEq(ExactMul(figSize'[1], figSize[2]),
                              ExactMul(figSize[1], figSize'[2]))
                  /\ AlmostLe(figSize'[1], W)
                  /\ ExactCmp(figSize'[2], H) <= 0
                  /\ (figSize'[1] = W \/ figSize'[2] = H)]_vars

\* a square figure fitted by height into a square box of 5 by 5 pixels at
\* 50 dpi: the height is the box's 0.1 inch, the width one unit in the last
\* place more
C11_Witness ==
    /\ caller = "show"
    /\ sizing_strategy = "preserve_aspect_ratio"
    /\ pc = "show_savefig"
    /\ figSize[2] = TermInches(5, 50)
    /\ ExactCmp(figSize[1], figSize[2]) = 1
    /\ AlmostLe(figSize[1], figSize[2])

\* ------------------------------------------------------------ C12
\* C12: when the ioctl succeeds and reports zero rows, term_size_px does not
\* return the ioctl values but goes on to the escape-code fallback, also when
\* the reported pixel width and height are both non-zero.
C12_ZeroRowsFallsBack ==
    [][(pc = "tsp_adjust" /\ height_rows = 0) =>
          (pc' = "tsp_getattr" /\ ret' = ret)]_vars

\* ------------------------------------------------------------ C13
\* C13: for positive heightPx, widthPx and rowCount reported by the ioctl the
\* primary strategy computes heightPx - 3*(heightPx/rowCount) with the three
\* rows' height truncated to an integer, returns (that height, widthPx) when
\* that height is non-zero, and otherwise runs the fallback.
C13_AdjustedHeightReturned ==
    [][(pc = "tsp_adjust" /\ height_rows > 0 /\ height_px > 0 /\ width_px > 0) =>
          LET adjusted == height_px - ((3 * height_px) \div height_rows)
          IN  IF adjusted # 0
              THEN /\ pc' \in {"done", "show_unpack"}
                   /\ ret' = Size(adjusted, width_px)
                   /\ exc' = NoException
              ELSE /\ pc' = "tsp_getattr"
                   /\ ret' = ret]_vars

\* term_size_px() has returned from the primary strategy (the fallback never
\* captured the terminal attributes) the height left of 2 or 3 pixels in 2
\* rows once three rows' height, 3 or 4 pixels, is removed
C13_Witness ==
    /\ caller = "term_size_px"
    /\ pc = "done"
    /\ tattr = "none"
    /\ ret = Size(-1, 1)

\* ------------------------------------------------------------ C14
Elements(s) == {s[i] : i \in 1..Len(s)}

\* C14: whatever new_figure_manager_given_figure, show and flush_figures
\* calls were made in interactive mode, a figure already queued included,
\* each figure is in _to_show at most once.
C14_QueuedAtMostOnce ==
    \A i, j \in 1..Len(_to_show) : _to_show[i] = _to_show[j] => i = j

\* ------------------------------------------------------------ C15
\* C15: a flush_figures call made with the backend selected and _draw_called
\* true leaves _to_show empty and _draw_called false, whether every fig.show()
\* returned or one of them raised.
C15_FlushResets ==
    [][(flush_figures /\ backend = KITTY_BACKEND /\ _draw_called) =>
          (_to_show' = <<>> /\ ~_draw_called')]_vars

\* a flush found two figures queued, showed the first, and the second's
\* show() raised: the queue is empty and the flag is down
C15_Witness ==
    /\ caller = "flush_figures"
    /\ exc = "Exception:fig.show"
    /\ flushed = <<1, 2>>
    /\ shown = <<1>>
    /\ _to_show = <<>>
    /\ ~_draw_called

\* ------------------------------------------------------------ C16
\* C16: flush_figures shows no figure that has no manager in Gcf at the time
\* of the flush: one closed after it was queued, or destroyed by
\* _BackendICatAgg.show, is not displayed by the flush.
C16_OnlyManagedFiguresShown ==
    [][flush_figures => Elements(shown') \subseteq gcf]_vars

\* a flush found figures 1 and 2 queued, 1 without a manager by then, and
\* showed 2 alone
C16_Witness ==
    /\ caller = "flush_figures"
    /\ exc = NoException
    /\ flushed = <<1, 2>>
    /\ shown = <<2>>

\* ------------------------------------------------------------ C17
\* C17: the flush shows every figure that is queued and still open: no queued
\* figure with a manager leaves the queue without having been shown by that
\* flush_figures call.
C17_EveryQueuedOpenFigureShown ==
    [][flush_figures =>
          \A fig \in (Elements(_to_show) \cap gcf) \ Elements(_to_show') :
              fig \in Elements(shown')]_vars

\* C17 as the code has it: a flush that runs (backend selected, redraw
\* pending) shows the queued figures that have a manager, in queue order,
\* when no fig.show() raises; when one raises, the figures before it have
\* been shown and it and all later ones leave the queue unshown.
C17_QueuedOpenFiguresShownUntilOneRaises ==
    [][(flush_figures /\ backend = KITTY_BACKEND /\ _draw_called) =>
          LET due == SelectSeq(_to_show, LAMBDA fig : fig \in gcf)
          IN  /\ _to_show' = <<>>
              /\ IF exc' = NoException
                 THEN shown' = due
                 ELSE /\ Len(shown') < Len(due)
                      /\ shown' = SubSeq(due, 1, Len(shown'))]_vars

\* a flush found figures 1 and 2 queued and open, the show() of 1 raised, and
\* 2 left the queue without being shown
C17_Witness ==
    /\ caller = "flush_figures"
    /\ exc = "Exception:fig.show"
    /\ flushed = <<1, 2>>
    /\ shown = <<>>
    /\ gcf = {1, 2}
    /\ _to_show = <<>>

\* ------------------------------------------------------------ C18
\* C18: with interactive mode off, new_figure_manager_given_figure changes
\* neither _to_show nor _draw_called; flush_figures shows queued figures
\* only, so it does not show a figure such a call created.
C18_NonInteractiveCreateQueuesNothing ==
    /\ [][(new_figure_manager_given_figure /\ ~interactive) =>
            (_to_show' = _to_show /\ _draw_called' = _draw_called)]_vars
    /\ [][flush_figures => Elements(shown') \subseteq Elements(_to_show)]_vars

\* the latest backend call created figure 1 with interactive mode off: it has
\* a manager and the queue is empty
C18_Witness ==
    /\ caller = "new_figure_manager_given_figure"
    /\ ~interactive
    /\ exc = NoException
    /\ gcf = {1}
    /\ _to_show = <<>>
    /\ ~_draw_called

\* ------------------------------------------------------------ C20
\* C20: after every backend call, completed or failed (a draw_idle() that
\* raises included), a non-empty _to_show implies _draw_called.
C20_QueuedImpliesDrawCalled == _to_show # <<>> => _draw_called

\* ------------------------------------------------------------ C19
\* term_size_px() on its own, with a program that keeps running once it is in
\* the read loop: the interpreter executes the next statement of lines 60-76
\* whenever there is one to execute (a read(1) with nothing to read is not
\* one)
SpecProbeFair ==
    /\ InitProbe
    /\ [][NextProbe]_vars
    /\ WF_vars(term_size_px_read)
    /\ WF_vars(term_size_px_finally)
    /\ WF_vars(term_size_px_parse)

\* the terminal's answer holds a 't' that the read loop has yet to reach
TerminatorPending == pc = "tsp_read" /\ 116 \in Elements(stdin)
\* failures from outside the probe: the user interrupts the read, or the
\* terminal refuses tcsetattr
OutsideFaults == {"KeyboardInterrupt", "termios.error:tcsetattr"}
ProbeInterrupted == pc = "raised" /\ exc \in OutsideFaults
ProbeEnded ==
    /\ pc = "done"
    /\ ret.kind \in {"size", "none"}
    /\ termMode = tattr

\* the read loop takes one character per turn, and leaves with the first 't'
\* as the last character read and everything after it unread
ReadStopsAtFirstTerminator ==
    /\ [][pc = "tsp_read" =>
            \/ (buf' = buf /\ stdin' = stdin)
            \/ (stdin # <<>> /\ buf' = Append(buf, Head(stdin)) /\ stdin' = Tail(stdin))]_vars
    /\ [][(pc = "tsp_read" /\ pc' # "tsp_read" /\ exc' = NoException) =>
            /\ stdin # <<>>
            /\ Head(stdin) = 116
            /\ stdin' = Tail(stdin)
            /\ buf' = Append(buf, 116)
            /\ 116 \notin Elements(buf)]_vars
\* a result comes only from parsing what was read up to a 't'
NoResultWithoutTerminator ==
    [][(tattr # "none" /\ ret.kind # "size" /\ ret'.kind = "size") =>
          (pc = "tsp_parse" /\ buf # <<>> /\ buf[Len(buf)] = 116)]_vars
\* with a 't' on its way the probe ends, unless a failure from outside ends
\* it, by returning a result or no result with the terminal mode restored
ProbeEndsOnceTerminatorComes == [](TerminatorPending => <>(ProbeEnded \/ ProbeInterrupted))

\* C19: the fallback read consumes one byte at a time and stops exactly at
\* the first 't'; if the input delivers a 't', the probe eventually
\* terminates with a result or no result and with the terminal mode restored;
\* while no 't' has been delivered it returns no result.
C19_ReadStopsAndProbeTerminates ==
    /\ ReadStopsAtFirstTerminator
    /\ NoResultWithoutTerminator
    /\ ProbeEndsOnceTerminatorComes

\* C19 but for C8's defect: the probe also ends by raising ValueError, with
\* the terminal mode restored, when a field of the reply is empty
C19_ProbeTerminatesOrRaisesValueError ==
    /\ ReadStopsAtFirstTerminator
    /\ NoResultWithoutTerminator
    /\ [](TerminatorPending =>
            <>(\/ ProbeEnded
               \/ ProbeInterrupted
               \/ (pc = "raised" /\ exc = "ValueError" /\ termMode = tattr)))

====
